---------------------------- MODULE Spec2Model ----------------------------
(***************************************************************************)
(* A model of the limit-up spreadsheet pipeline of server.js and           *)
(* process_excel_cli.js: column resolution, category-field trimming,       *)
(* sorting, category-priority pagination, statistics, and the upload       *)
(* handler's response / temporary-file protocol.                           *)
(*                                                                         *)
(* Representation.                                                         *)
(*  - A JavaScript string is the sequence of its UTF-16 code units         *)
(*    (naturals), so .length, slicing, the CJK range test and the          *)
(*    relational operators on strings are what they are in the engine.     *)
(*  - A cell value is a tagged record: a string, a number, or undefined.   *)
(*  - An object is the sequence of its own <<key, value>> pairs in         *)
(*    insertion order; ObjectEntries applies the engine's enumeration      *)
(*    order (array-index keys first, ascending, then the others).          *)
(*  - A row carries an id: the identity of the JavaScript object.          *)
(* Modelled domain: keys of the count maps are not names of                *)
(* Object.prototype members ("constructor", "__proto__", ...), row         *)
(* headers are not array-index strings, numbers are integers.              *)
(***************************************************************************)
EXTENDS Integers, Sequences, FiniteSets, TLC

VARIABLES
    pc,              \* position of the run in the handler or the script
    mode,            \* "http": the upload handler, "cli": the script
    reqFile,         \* req.file is set / the script's input file exists
    readable,        \* XLSX.readFile will not throw
    constraintField, \* req.body.maxConstraint
    rawData,         \* what sheet_to_json returns for the file
    cleanedData,
    foundCols,       \* the results of the four findColumn calls
    renamedData,     \* the array passed to processReasonCategoryField
    processedData,   \* the array passed to sortData
    reprocessedData, \* processReasonCategoryField applied to its own result
    maxLength,       \* the width budget of a direct trimReasonCategoryField call
    trimmed,         \* the result of that call
    sortedData,      \* the array sortData returned
    maxConstraint,   \* the pagination budget
    pages,           \* result of splitIntoPagesByCategoryPriority
    categoryStats,   \* result of getCategoryStats
    ran,             \* the processing steps executed so far
    fileOnDisk,      \* the uploaded temporary file exists
    unlinkAttempts,  \* calls of fs.unlinkSync on it
    thrownAt,        \* the call that threw, "none" if none did
    responses,       \* status codes of the responses sent, in order
    exitCode,        \* the script's exit code, -1 while it runs
    filesWritten     \* output files the script has written

vars == <<pc, mode, reqFile, readable, constraintField, rawData, cleanedData, foundCols,
          renamedData, processedData, reprocessedData, maxLength, trimmed,
          sortedData, maxConstraint, pages, categoryStats, ran, fileOnDisk,
          unlinkAttempts, thrownAt, responses, exitCode, filesWritten>>

-----------------------------------------------------------------------------
(* Strings as sequences of UTF-16 code units *)

\* '涨停原因'
KeyLimitReason == <<28072, 20572, 21407, 22240>>
\* '涨停原因类别'
KeyLimitReasonCategory == <<28072, 20572, 21407, 22240, 31867, 21035>>
\* '最终涨停时间'
KeyFinalLimitTime == <<26368, 32456, 28072, 20572, 26102, 38388>>
\* '连续涨停天数(天)'
KeyContinuousLimitDays == <<36830, 32493, 28072, 20572, 22825, 25968, 40, 22825, 41>>
\* '涨停原因揭秘'
KeyReasonDisclosure == <<28072, 20572, 21407, 22240, 25581, 31192>>
\* "其他概念"
OtherConcept == <<20854, 20182, 27010, 24565>>

Slice(s, from, to) == [k \in 1..(IF to >= from THEN to - from + 1 ELSE 0) |-> s[from + k - 1]]

IsDigit(c) == c >= 48 /\ c <= 57

\* s < t for two strings: code unit by code unit, a proper prefix is smaller
StringLess(s, t) ==
    \E k \in 1..(Len(t)) :
        /\ \A m \in 1..(k - 1) : m <= Len(s) /\ s[m] = t[m]
        /\ k - 1 <= Len(s)
        /\ (k > Len(s) \/ s[k] < t[k])

RECURSIVE DecimalValue(_)
DecimalValue(s) ==
    IF Len(s) = 0 THEN 0
    ELSE 10 * DecimalValue(SubSeq(s, 1, Len(s) - 1)) + (s[Len(s)] - 48)

RECURSIVE DecimalDigits(_)
DecimalDigits(n) ==
    IF n < 10 THEN <<48 + n>> ELSE Append(DecimalDigits(n \div 10), 48 + (n % 10))

-----------------------------------------------------------------------------
(* Values and objects *)

Str(s) == [type |-> "string", str |-> s]
Num(n) == [type |-> "number", num |-> n]
Undefined == [type |-> "undefined"]
Null == [type |-> "null"]

\* String(v), also the coercion of a value used as a property key
ToStr(v) ==
    IF v.type = "string" THEN v.str
    ELSE IF v.type = "number"
         THEN (IF v.num < 0 THEN <<45>> \o DecimalDigits(0 - v.num) ELSE DecimalDigits(v.num))
         ELSE IF v.type = "null" THEN <<110, 117, 108, 108>>
         ELSE <<117, 110, 100, 101, 102, 105, 110, 101, 100>>

\* v === s for a value v and a string s
StrictEqualsString(v, s) == v.type = "string" /\ v.str = s

\* row[key]
Get(row, key) ==
    IF \E k \in 1..Len(row.fields) : row.fields[k][1] = key
    THEN row.fields[CHOOSE k \in 1..Len(row.fields) : row.fields[k][1] = key][2]
    ELSE Undefined

\* a canonical array index: "0", or digits without a leading zero, below
\* 2^32 - 1; keys of ten digits or more are outside the modelled domain
IsArrayIndex(key) ==
    /\ Len(key) >= 1
    /\ Len(key) <= 9
    /\ \A k \in 1..Len(key) : IsDigit(key[k])
    /\ (Len(key) = 1 \/ key[1] # 48)

\* Array.prototype.sort as the engine of Node.js runs it on an array of fewer
\* than 64 elements: the leading run is found (and reversed when strictly
\* descending), then the other elements are put in place by binary insertion.
\* work holds positions of the array being sorted; compared[a][b] is the
\* comparator's result on the elements at positions a and b, a NaN result
\* already read as 0.  For a consistent comparator the outcome is the stable
\* sort; for any other comparator it is what these steps leave.

\* the length of the run that starts work: the scan stops at the first
\* element that breaks the direction of the first pair
RECURSIVE RunLength(_, _, _, _)
RunLength(work, compared, isDescending, idx) ==
    IF idx > Len(work) THEN Len(work)
    ELSE LET order == compared[work[idx]][work[idx - 1]]
         IN  IF (isDescending /\ order >= 0) \/ (~isDescending /\ order < 0)
             THEN idx - 1
             ELSE RunLength(work, compared, isDescending, idx + 1)

\* the 0-based place of pivot among work[left .. right - 1], by halving
RECURSIVE InsertionPoint(_, _, _, _, _)
InsertionPoint(work, compared, pivot, left, right) ==
    IF left < right
    THEN LET mid == left + ((right - left) \div 2)
         IN  IF compared[pivot][work[mid + 1]] < 0
             THEN InsertionPoint(work, compared, pivot, left, mid)
             ELSE InsertionPoint(work, compared, pivot, mid + 1, right)
    ELSE left

\* the elements from the 0-based position start on are inserted, one by one,
\* into the sorted part before them
RECURSIVE BinaryInsertionSort(_, _, _)
BinaryInsertionSort(work, compared, start) ==
    IF start >= Len(work) THEN work
    ELSE LET pivot == work[start + 1]
             at == InsertionPoint(work, compared, pivot, 0, start)
             moved == [k \in 1..Len(work) |->
                          IF k - 1 < at THEN work[k]
                          ELSE IF k - 1 = at THEN pivot
                          ELSE IF k - 1 <= start THEN work[k - 1]
                          ELSE work[k]]
         IN  BinaryInsertionSort(moved, compared, start + 1)

ArraySort(arr, compared) ==
    LET n == Len(arr)
        work == [k \in 1..n |-> k]
        isDescending == compared[2][1] < 0
        run == RunLength(work, compared, isDescending, 3)
        made == [k \in 1..n |-> IF isDescending /\ k <= run THEN run + 1 - k ELSE k]
        sorted == BinaryInsertionSort(made, compared, run)
    IN  IF n < 2 THEN arr ELSE [k \in 1..n |-> arr[sorted[k]]]

\* own keys are enumerated array indices first, ascending, then the other
\* string keys in insertion order
CompareKeyOrder(obj, a, b) ==
    IF IsArrayIndex(obj[a][1]) # IsArrayIndex(obj[b][1])
    THEN (IF IsArrayIndex(obj[a][1]) THEN 0 - 1 ELSE 1)
    ELSE IF IsArrayIndex(obj[a][1])
         THEN DecimalValue(obj[a][1]) - DecimalValue(obj[b][1])
         ELSE a - b

\* Object.entries of an object given by its own pairs in insertion order
ObjectEntries(obj) ==
    LET n == Len(obj)
    IN  ArraySort(obj, [a \in 1..n |-> [b \in 1..n |-> CompareKeyOrder(obj, a, b)]])

-----------------------------------------------------------------------------
(* splitIntoPagesByCategoryPriority and getCategoryStats *)

\* obj[key], for a count map: the count, or undefined read as 0 by "|| 0"
ObjCount(obj, key) ==
    IF \E k \in 1..Len(obj) : obj[k][1] = key
    THEN obj[CHOOSE k \in 1..Len(obj) : obj[k][1] = key][2]
    ELSE 0

\* obj[key] = value: an own key keeps its place, a new key is added last
ObjSet(obj, key, value) ==
    IF \E k \in 1..Len(obj) : obj[k][1] = key
    THEN [k \in 1..Len(obj) |-> IF obj[k][1] = key THEN <<key, value>> ELSE obj[k]]
    ELSE Append(obj, <<key, value>>)

\* data.forEach(row => categoryCounts[row[col]] = (categoryCounts[row[col]] || 0) + 1)
RECURSIVE CountCategories(_, _, _)
CountCategories(data, categoryCol, n) ==
    IF n = 0 THEN <<>>
    ELSE LET obj == CountCategories(data, categoryCol, n - 1)
             category == ToStr(Get(data[n], categoryCol))
         IN  ObjSet(obj, category, ObjCount(obj, category) + 1)

\* arr.filter(pred), for the positions of arr that satisfy pred
RECURSIVE FilterSeq(_, _, _)
FilterSeq(arr, keep, n) ==
    IF n = 0 THEN <<>>
    ELSE IF n \in keep
         THEN Append(FilterSeq(arr, keep, n - 1), arr[n])
         ELSE FilterSeq(arr, keep, n - 1)

\* the count comparator (a, b) => b[1] - a[1]
CompareCountDesc(a, b) == b[2] - a[2]

CountsCompared(entries) ==
    [a \in 1..Len(entries) |-> [b \in 1..Len(entries) |->
        CompareCountDesc(entries[a], entries[b])]]

\* sortedCategories: non-sentinel keys by count descending, the sentinel last
SortedCategories(data, categoryCol) ==
    LET categoryCounts == CountCategories(data, categoryCol, Len(data))
        entries == ObjectEntries(categoryCounts)
        kept == FilterSeq(entries, {k \in 1..Len(entries) : entries[k][1] # OtherConcept},
                          Len(entries))
        sorted == ArraySort(kept, CountsCompared(kept))
        cats == [k \in 1..Len(sorted) |-> sorted[k][1]]
    IN  IF ObjCount(categoryCounts, OtherConcept) # 0
        THEN Append(cats, OtherConcept)
        ELSE cats

\* data.filter(row => row[categoryCol] === cat)
RowsOfCategory(data, categoryCol, cat) ==
    FilterSeq(data, {k \in 1..Len(data) : StrictEqualsString(Get(data[k], categoryCol), cat)},
              Len(data))

RECURSIVE ConcatCategories(_, _, _, _)
ConcatCategories(data, categoryCol, cats, n) ==
    IF n = 0 THEN <<>>
    ELSE ConcatCategories(data, categoryCol, cats, n - 1)
         \o RowsOfCategory(data, categoryCol, cats[n])

\* a mutant of the reordering: the sentinel is a category like the others,
\* placed by its count
ReorderByCountOnly(data, categoryCol) ==
    LET entries == ObjectEntries(CountCategories(data, categoryCol, Len(data)))
        sorted == ArraySort(entries, CountsCompared(entries))
        cats == [k \in 1..Len(sorted) |-> sorted[k][1]]
    IN  ConcatCategories(data, categoryCol, cats, Len(cats))

\* reorderedData: the rows of each category in sortedCategories order; the
\* sentinel's rows are collected apart and pushed after all the others
ReorderByCategoryPriority(data, categoryCol) ==
    LET sortedCategories == SortedCategories(data, categoryCol)
        others == FilterSeq(sortedCategories,
                            {k \in 1..Len(sortedCategories) : sortedCategories[k] # OtherConcept},
                            Len(sortedCategories))
        sentinel == FilterSeq(sortedCategories,
                              {k \in 1..Len(sortedCategories) : sortedCategories[k] = OtherConcept},
                              Len(sortedCategories))
    IN  ConcatCategories(data, categoryCol, others, Len(others))
        \o ConcatCategories(data, categoryCol, sentinel, Len(sentinel))

\* a mutant of the constraint test: a category weighs 1 instead of 2
ExceedsConstraintUnweighted(categoryCount, itemCount, limit) ==
    categoryCount + itemCount > limit

\* categoryCount * 2 + itemCount > maxConstraint
ExceedsConstraint(categoryCount, itemCount, limit) ==
    categoryCount * 2 + itemCount > limit

\* the inner while: from 0-based position j of a window begun with the set
\* categories and itemCount rows, the position the window stops before
RECURSIVE WindowEnd(_, _, _, _, _, _)
WindowEnd(reorderedData, categoryCol, limit, j, categories, itemCount) ==
    IF ~(j < Len(reorderedData)) THEN j
    ELSE LET currentCategory == Get(reorderedData[j + 1], categoryCol)
             seen == categories \cup {currentCategory}
         IN  IF ExceedsConstraint(Cardinality(seen), itemCount + 1, limit)
             THEN j
             ELSE WindowEnd(reorderedData, categoryCol, limit, j + 1, seen, itemCount + 1)

\* the outer while: the pages from 0-based position i on
RECURSIVE PagesFrom(_, _, _, _)
PagesFrom(reorderedData, categoryCol, limit, i) ==
    IF ~(i < Len(reorderedData)) THEN <<>>
    ELSE LET scanned == WindowEnd(reorderedData, categoryCol, limit, i, {}, 0)
             j == IF scanned = i THEN i + 1 ELSE scanned
         IN  <<Slice(reorderedData, i + 1, j)>>
             \o PagesFrom(reorderedData, categoryCol, limit, j)

splitIntoPagesByCategoryPriority(data, categoryCol, limit) ==
    PagesFrom(ReorderByCategoryPriority(data, categoryCol), categoryCol, limit, 0)

\* getCategoryStats: {category, count} per key of the count map, by count descending
getCategoryStats(data) ==
    LET categoryCounts == CountCategories(data, KeyLimitReason, Len(data))
        entries == ObjectEntries(categoryCounts)
        sorted == ArraySort(entries, CountsCompared(entries))
    IN  [k \in 1..Len(sorted) |-> [category |-> sorted[k][1], count |-> sorted[k][2]]]

-----------------------------------------------------------------------------
(* calculateChineseLength, normalizeReasonCategory, trimReasonCategoryField *)

Plus == 43
Space == 32

\* the characters of \s and of String.prototype.trim
IsWhitespace(c) ==
    \/ c \in {9, 10, 11, 12, 13, 32, 160, 5760, 8232, 8233, 8239, 8287, 12288, 65279}
    \/ (c >= 8192 /\ c <= 8202)

\* /[一-鿿]/
IsChinese(c) == c >= 19968 /\ c <= 40959

\* a mutant of the width: every code unit counts 1
calculateLengthInCodeUnits(text) == Len(text)

\* calculateChineseLength on a string
calculateChineseLength(text) ==
    LET chineseCount == Cardinality({k \in 1..Len(text) : IsChinese(text[k])})
    IN  chineseCount * 2 + (Len(text) - chineseCount)

\* String.prototype.trim
RECURSIVE TrimStart(_)
TrimStart(s) ==
    IF Len(s) > 0 /\ IsWhitespace(s[1]) THEN TrimStart(Tail(s)) ELSE s

RECURSIVE TrimEnd(_)
TrimEnd(s) ==
    IF Len(s) > 0 /\ IsWhitespace(s[Len(s)]) THEN TrimEnd(SubSeq(s, 1, Len(s) - 1)) ELSE s

StringTrim(s) == TrimEnd(TrimStart(s))

\* s.replace(/\s+/g, ' ')
RECURSIVE CollapseWhitespace(_)
CollapseWhitespace(s) ==
    IF Len(s) = 0 THEN <<>>
    ELSE IF IsWhitespace(s[1])
         THEN <<Space>> \o CollapseWhitespace(TrimStart(s))
         ELSE <<s[1]>> \o CollapseWhitespace(Tail(s))

\* normalizeReasonCategory; null and undefined give ""
normalizeReasonCategory(reasonCategory) ==
    IF reasonCategory.type = "null" \/ reasonCategory.type = "undefined" THEN <<>>
    ELSE CollapseWhitespace(StringTrim(ToStr(reasonCategory)))

\* while (result.endsWith('+')) result = result.slice(0, -1)
RECURSIVE StripTrailingPlus(_)
StripTrailingPlus(s) ==
    IF Len(s) > 0 /\ s[Len(s)] = Plus
    THEN StripTrailingPlus(SubSeq(s, 1, Len(s) - 1))
    ELSE s

\* truncated.lastIndexOf('+'), 0-based, -1 when there is none
LastIndexOfPlus(s) ==
    IF \E k \in 1..Len(s) : s[k] = Plus
    THEN (CHOOSE k \in 1..Len(s) : s[k] = Plus /\ \A m \in (k + 1)..Len(s) : s[m] # Plus) - 1
    ELSE 0 - 1

\* the for loop of trimReasonCategoryField from length i down
RECURSIVE TruncateFrom(_, _, _)
TruncateFrom(reasonCategory, limit, i) ==
    IF ~(i > 0) THEN <<>>
    ELSE LET truncated == Slice(reasonCategory, 1, i)
             lastPlusIndex == LastIndexOfPlus(truncated)
         IN  IF calculateChineseLength(truncated) <= limit
             THEN StripTrailingPlus(
                      IF lastPlusIndex # 0 - 1 /\ lastPlusIndex < Len(truncated) - 1
                      THEN Slice(truncated, 1, lastPlusIndex)
                      ELSE truncated)
             ELSE TruncateFrom(reasonCategory, limit, i - 1)

\* trimReasonCategoryField on a string
trimReasonCategoryField(reasonCategory, limit) ==
    IF calculateChineseLength(reasonCategory) <= limit
    THEN StripTrailingPlus(reasonCategory)
    ELSE TruncateFrom(reasonCategory, limit, Len(reasonCategory))

\* the default of the maxLength parameter
DefaultMaxLength == 36

\* row with row[key] = value; the key keeps its place, a new key comes last
SetField(row, key, value) == [row EXCEPT !.fields = ObjSet(row.fields, key, value)]

\* processReasonCategoryField: a copy of each row with the category field
\* normalized and trimmed to the default width
processReasonCategoryField(data) ==
    [k \in 1..Len(data) |->
        SetField(data[k], KeyLimitReasonCategory,
                 Str(trimReasonCategoryField(
                         normalizeReasonCategory(Get(data[k], KeyLimitReasonCategory)),
                         DefaultMaxLength)))]

-----------------------------------------------------------------------------
(* sortData *)

\* Number(v) is NaN: undefined, or a string that is not a numeric literal once
\* its white space is trimmed.  The numeric literals of the model are the
\* strings of decimal digits and the empty string; literals with a sign, a
\* point, an exponent or a radix prefix are not in the modelled cells.
NumberIsNaN(v) ==
    \/ v.type = "undefined"
    \/ (v.type = "string" /\ \E k \in 1..Len(StringTrim(v.str)) : ~IsDigit(StringTrim(v.str)[k]))

\* Number(v) when it is not NaN: null and the blank string are 0
ToNumber(v) ==
    IF v.type = "number" THEN v.num
    ELSE IF v.type = "string" THEN DecimalValue(StringTrim(v.str))
    ELSE 0

\* x < y: two strings are compared code unit by code unit, any other pair as
\* numbers, and a comparison with NaN is false
LessThan(x, y) ==
    IF x.type = "string" /\ y.type = "string" THEN StringLess(x.str, y.str)
    ELSE ~NumberIsNaN(x) /\ ~NumberIsNaN(y) /\ ToNumber(x) < ToNumber(y)

\* a number the comparator returns
NaN == [nan |-> TRUE, num |-> 0]
Number(n) == [nan |-> FALSE, num |-> n]

\* the comparator of sortData: b - a on the day cells is NaN when either is,
\* and NaN !== 0, so NaN is returned
CompareRows(a, b) ==
    LET daysA == Get(a, KeyContinuousLimitDays)
        daysB == Get(b, KeyContinuousLimitDays)
        timeA == Get(a, KeyFinalLimitTime)
        timeB == Get(b, KeyFinalLimitTime)
    IN  IF NumberIsNaN(daysA) \/ NumberIsNaN(daysB) THEN NaN
        ELSE IF ToNumber(daysB) - ToNumber(daysA) # 0
             THEN Number(ToNumber(daysB) - ToNumber(daysA))
        ELSE IF LessThan(timeA, timeB) THEN Number(0 - 1)
        ELSE IF LessThan(timeB, timeA) THEN Number(1)
        ELSE Number(0)

\* what sort makes of the comparator's result: NaN is read as 0
SortCompare(v) == IF v.nan THEN 0 ELSE v.num

\* data.sort(compare): the array itself, reordered
sortData(data) ==
    ArraySort(data, [a \in 1..Len(data) |-> [b \in 1..Len(data) |->
                        SortCompare(CompareRows(data[a], data[b]))]])

-----------------------------------------------------------------------------
(* cleanDateFields, findColumn and the renaming of the resolved columns *)

\* Object.keys(row)
Keys(row) == [k \in 1..Len(row.fields) |-> row.fields[k][1]]

\* the string at 0-based position at of s starts with sub
MatchesAt(s, sub, at) ==
    /\ at + Len(sub) <= Len(s)
    /\ \A k \in 1..Len(sub) : s[at + k] = sub[k]

\* s.includes(sub)
Includes(s, sub) == \E at \in 0..Len(s) : MatchesAt(s, sub, at)

\* /\d{4}\.\d{2}\.\d{2}$/ matches col
EndsWithDate(col) ==
    /\ Len(col) >= 10
    /\ LET tail == Slice(col, Len(col) - 9, Len(col))
       IN  /\ \A k \in {1, 2, 3, 4, 6, 7, 9, 10} : IsDigit(tail[k])
           /\ tail[5] = 46
           /\ tail[8] = 46

\* col.replace(/\d{4}\.\d{2}\.\d{2}$/, '')
CleanedCol(col) == IF EndsWithDate(col) THEN Slice(col, 1, Len(col) - 10) ELSE col

\* newHeaders[oldKey] used as a key: the cleaned name of a column of the first
\* row, "undefined" for any other key
NewHeader(firstRow, oldKey) ==
    IF \E k \in 1..Len(firstRow.fields) : firstRow.fields[k][1] = oldKey
    THEN CleanedCol(oldKey)
    ELSE ToStr(Undefined)

\* the forEach that fills newRow from the first n fields of row
RECURSIVE CleanedFields(_, _, _)
CleanedFields(firstRow, row, n) ==
    IF n = 0 THEN <<>>
    ELSE ObjSet(CleanedFields(firstRow, row, n - 1),
                NewHeader(firstRow, row.fields[n][1]), row.fields[n][2])

cleanDateFields(data) ==
    IF Len(data) = 0 THEN data
    ELSE [k \in 1..Len(data) |->
             [data[k] EXCEPT !.fields = CleanedFields(data[1], data[k], Len(data[k].fields))]]

\* the first column, in key order, that satisfies the test
FirstColumn(columns, matching) ==
    columns[CHOOSE k \in matching : \A m \in matching : k <= m]

\* findColumn: exact match, then match after trim, then substring match
findColumn(data, columnName) ==
    IF Len(data) = 0 THEN Null
    ELSE LET columns == Keys(data[1])
             exact == {k \in 1..Len(columns) : columns[k] = columnName}
             trimmedEq == {k \in 1..Len(columns) : StringTrim(columns[k]) = columnName}
             partial == {k \in 1..Len(columns) : Includes(columns[k], columnName)}
         IN  IF exact # {} THEN Str(columnName)
             ELSE IF trimmedEq # {} THEN Str(FirstColumn(columns, trimmedEq))
             ELSE IF partial # {} THEN Str(FirstColumn(columns, partial))
             ELSE Null

\* !col
Falsy(col) == col.type = "null" \/ (col.type = "string" /\ col.str = <<>>)

\* a mutant of the required-columns test: only a dataset that lacks all four
\* columns is refused
AllColumnsMissing(found) ==
    /\ Falsy(found.finalLimitTimeCol)
    /\ Falsy(found.continuousLimitDaysCol)
    /\ Falsy(found.limitReasonCol)
    /\ Falsy(found.limitReasonCategoryCol)

\* !finalLimitTimeCol || !continuousLimitDaysCol || !limitReasonCol || !limitReasonCategoryCol
MissingColumns(found) ==
    \/ Falsy(found.finalLimitTimeCol)
    \/ Falsy(found.continuousLimitDaysCol)
    \/ Falsy(found.limitReasonCol)
    \/ Falsy(found.limitReasonCategoryCol)

\* a resolved column used as a property key
KeyOf(col) == ToStr(col)

\* delete obj[key]
ObjDelete(obj, key) == FilterSeq(obj, {k \in 1..Len(obj) : obj[k][1] # key}, Len(obj))

\* the map callback that renames the four resolved columns of a row and
\* removes every field whose name includes '涨停原因揭秘'
RenamedRow(row, found) ==
    LET removed == ObjDelete(ObjDelete(ObjDelete(ObjDelete(row.fields,
                       KeyOf(found.finalLimitTimeCol)),
                       KeyOf(found.continuousLimitDaysCol)),
                       KeyOf(found.limitReasonCol)),
                       KeyOf(found.limitReasonCategoryCol))
        added == ObjSet(ObjSet(ObjSet(ObjSet(removed,
                     KeyFinalLimitTime, Get(row, KeyOf(found.finalLimitTimeCol))),
                     KeyContinuousLimitDays, Get(row, KeyOf(found.continuousLimitDaysCol))),
                     KeyLimitReason, Get(row, KeyOf(found.limitReasonCol))),
                     KeyLimitReasonCategory, Get(row, KeyOf(found.limitReasonCategoryCol)))
    IN  [row EXCEPT !.fields =
            FilterSeq(added, {k \in 1..Len(added) : ~Includes(added[k][1], KeyReasonDisclosure)},
                      Len(added))]

renameColumns(data, found) == [k \in 1..Len(data) |-> RenamedRow(data[k], found)]

\* req.body.maxConstraint ? parseInt(req.body.maxConstraint) : 33, for a field
\* that is absent or a string of decimal digits
DefaultMaxConstraint == 33

ParsedMaxConstraint(field) ==
    IF field.type = "undefined" \/ (field.type = "string" /\ field.str = <<>>)
    THEN DefaultMaxConstraint
    ELSE DecimalValue(field.str)

-----------------------------------------------------------------------------
(* Bounds and input domains *)

MaxPageRows == 4
MaxConstraintBound == 7
MaxSortRows == 3
MaxStrLen == 4
MaxWidthBound == 5
MaxSheetRows == 2

Row(id, fields) == [id |-> id, fields |-> fields]

\* 涨停原因 cells: "A", "B", "", "1", the number 1, "其他概念"
ReasonCells == {Str(<<65>>), Str(<<66>>), Str(<<>>), Str(<<49>>), Num(1), Str(OtherConcept)}

\* 连续涨停天数(天) cells: 2, 10, the blank cell "" and the text cell "--"
DaysCells == {Num(2), Num(10), Str(<<>>), Str(<<45, 45>>)}

\* 最终涨停时间 cells: "09:25", "10:00", "9:30" and the number 930
TimeCells == {Str(<<48, 57, 58, 50, 53>>), Str(<<49, 48, 58, 48, 48>>), Str(<<57, 58, 51, 48>>),
              Num(930)}

\* arrays of n rows whose cells are drawn by the function f, row k with id k
RowsWithReasons(n) ==
    {[k \in 1..n |-> Row(k, << <<KeyLimitReason, f[k]>> >>)] : f \in [1..n -> ReasonCells]}

RowsWithSortKeys(n) ==
    {[k \in 1..n |-> Row(k, << <<KeyContinuousLimitDays, f[k][1]>>,
                               <<KeyFinalLimitTime, f[k][2]>> >>)] :
        f \in [1..n -> DaysCells \X TimeCells]}

\* 涨停原因类别 strings: every string of at most MaxStrLen code units over
\* '中', 'a', '+', ' ', and three strings wider than the default budget:
\* 18 x '中' then "+a"; 10 x '中', '+', 10 x '中'; 17 x '中', " +", 3 x '中'
CategoryAlphabet == {20013, 97, Plus, Space}

Repeat(c, n) == [k \in 1..n |-> c]

LongCategories ==
    { Repeat(20013, 18) \o <<Plus, 97>>,
      Repeat(20013, 10) \o <<Plus>> \o Repeat(20013, 10),
      Repeat(20013, 17) \o <<Space, Plus>> \o Repeat(20013, 3) }

CategoryStrings ==
    UNION {[1..n -> CategoryAlphabet] : n \in 0..MaxStrLen} \cup LongCategories

\* 涨停原因类别 cells: the strings, a number, a missing cell and a null cell
CategoryCells == {Str(t) : t \in CategoryStrings} \cup {Num(12), Undefined, Null}

\* the headers of a sheet, each with the kind of cell its column holds
DateSuffix == <<50, 48, 50, 52, 46, 48, 51, 46, 49, 53>>
KeyCode == <<20195, 30721>>

HeaderExact ==
    << <<KeyFinalLimitTime, "time">>, <<KeyContinuousLimitDays, "days">>,
       <<KeyLimitReason, "reason">>, <<KeyLimitReasonCategory, "category">> >>

HeaderDated ==
    << <<KeyCode, "code">>, <<KeyFinalLimitTime \o DateSuffix, "time">>,
       <<KeyContinuousLimitDays \o DateSuffix, "days">>,
       <<KeyReasonDisclosure \o DateSuffix, "disclosure">>,
       <<KeyLimitReason \o DateSuffix, "reason">>,
       <<KeyLimitReasonCategory \o DateSuffix, "category">> >>

HeaderPadded ==
    << <<<<Space>> \o KeyFinalLimitTime, "time">>,
       <<KeyContinuousLimitDays \o <<Space>>, "days">>,
       <<KeyLimitReasonCategory, "category">>,
       <<<<Space>> \o KeyLimitReason \o <<Space>>, "reason">> >>

HeaderNoTime ==
    << <<KeyContinuousLimitDays, "days">>, <<KeyLimitReason, "reason">>,
       <<KeyLimitReasonCategory, "category">> >>

HeaderNoReason ==
    << <<KeyFinalLimitTime, "time">>, <<KeyContinuousLimitDays, "days">>,
       <<KeyLimitReasonCategory, "category">> >>

HeaderUnrelated == << <<KeyCode, "code">> >>

Headers == {HeaderExact, HeaderDated, HeaderPadded, HeaderNoTime, HeaderNoReason,
            HeaderUnrelated}

\* the cells of a sheet row, by kind of column
RowTemplates ==
    { [time |-> Str(<<48, 57, 58, 50, 53>>), days |-> Num(2), reason |-> Str(<<65>>),
       category |-> Str(<<120, Plus, 121>>), disclosure |-> Str(<<100>>), code |-> Num(1)],
      [time |-> Str(<<57, 58, 51, 48>>), days |-> Num(10), reason |-> Str(OtherConcept),
       category |-> Str(<<97, Space, Plus>>), disclosure |-> Str(<<>>), code |-> Num(2)],
      [time |-> Str(<<48, 57, 58, 50, 53>>), days |-> Str(<<>>), reason |-> Str(<<49>>),
       category |-> Str(<<>>), disclosure |-> Str(<<100>>), code |-> Num(3)] }

\* what sheet_to_json returns: one object per sheet row, a key per header
Sheets ==
    UNION { { [k \in 1..n |->
                 Row(k, [c \in 1..Len(h) |-> <<h[c][1], f[k][h[c][2]]>>])] :
              f \in [1..n -> RowTemplates] } :
            h \in Headers, n \in 0..MaxSheetRows }

\* the maxConstraint form field: absent, "", "0", "5"
ConstraintFields == {Undefined, Str(<<>>), Str(<<48>>), Str(<<53>>)}

NoColumns ==
    [finalLimitTimeCol |-> Null, continuousLimitDaysCol |-> Null,
     limitReasonCol |-> Null, limitReasonCategoryCol |-> Null]

-----------------------------------------------------------------------------
(* The pipeline: the upload handler of server.js and the script of          *)
(* process_excel_cli.js, one action per step                                *)

inputVars == <<mode, reqFile, readable, constraintField, rawData>>
trimVars == <<reprocessedData, maxLength, trimmed>>
ioVars == <<fileOnDisk, unlinkAttempts, thrownAt, responses, exitCode, filesWritten>>

\* everything a run starts with besides its inputs
Fresh ==
    /\ foundCols = NoColumns
    /\ reprocessedData = <<>>
    /\ maxLength = DefaultMaxLength
    /\ trimmed = <<>>
    /\ pages = <<>>
    /\ categoryStats = <<>>
    /\ ran = {}
    /\ unlinkAttempts = 0
    /\ thrownAt = "none"
    /\ responses = <<>>
    /\ exitCode = 0 - 1
    /\ filesWritten = 0

\* if (!req.file) return res.status(400)...; the script: the input file does
\* not exist, exit code 1
NoFile ==
    /\ pc = "start"
    /\ ~reqFile
    /\ IF mode = "http"
       THEN responses' = Append(responses, 400) /\ UNCHANGED exitCode
       ELSE exitCode' = 1 /\ UNCHANGED responses
    /\ pc' = "done"
    /\ UNCHANGED <<inputVars, trimVars, cleanedData, foundCols, renamedData, processedData,
                   sortedData, maxConstraint, pages, categoryStats, ran,
                   fileOnDisk, unlinkAttempts, thrownAt, filesWritten>>

\* maxConstraint, XLSX.readFile, sheet_to_json, cleanDateFields; readFile
\* throws on a file it cannot read
ReadWorkbook ==
    /\ pc = "start"
    /\ reqFile
    /\ \/ /\ readable
          /\ maxConstraint' = IF mode = "http" THEN ParsedMaxConstraint(constraintField)
                              ELSE DefaultMaxConstraint
          /\ cleanedData' = cleanDateFields(rawData)
          /\ pc' = "read"
          /\ UNCHANGED thrownAt
       \/ /\ ~readable
          /\ pc' = "catch"
          /\ thrownAt' = "read"
          /\ UNCHANGED <<maxConstraint, cleanedData>>
    /\ UNCHANGED <<inputVars, trimVars, foundCols, renamedData, processedData, sortedData,
                   pages, categoryStats, ran, fileOnDisk, unlinkAttempts, responses,
                   exitCode, filesWritten>>

\* the four findColumn calls and the test of their results
FindColumns ==
    /\ pc = "read"
    /\ foundCols' = [finalLimitTimeCol |-> findColumn(cleanedData, KeyFinalLimitTime),
                 continuousLimitDaysCol |-> findColumn(cleanedData, KeyContinuousLimitDays),
                 limitReasonCol |-> findColumn(cleanedData, KeyLimitReason),
                 limitReasonCategoryCol |-> findColumn(cleanedData, KeyLimitReasonCategory)]
    /\ ran' = ran \cup {"find"}
    /\ pc' = IF MissingColumns(foundCols') THEN "missing" ELSE "resolved"
    /\ UNCHANGED <<inputVars, trimVars, ioVars, cleanedData, renamedData, processedData,
                   sortedData, maxConstraint, pages, categoryStats>>

\* the missing-columns branch: the handler unlinks the upload (unlinkSync may
\* throw) before it answers; the script exits with code 1
AbortMissing ==
    /\ pc = "missing"
    /\ IF mode = "http"
       THEN /\ unlinkAttempts' = unlinkAttempts + 1
            /\ \/ /\ fileOnDisk
                  /\ fileOnDisk' = FALSE
                  /\ pc' = "refused"
                  /\ UNCHANGED thrownAt
               \/ /\ pc' = "catch"
                  /\ thrownAt' = "unlink"
                  /\ UNCHANGED fileOnDisk
            /\ UNCHANGED exitCode
       ELSE /\ exitCode' = 1
            /\ pc' = "done"
            /\ UNCHANGED <<fileOnDisk, unlinkAttempts, thrownAt>>
    /\ UNCHANGED <<inputVars, trimVars, cleanedData, foundCols, renamedData, processedData,
                   sortedData, maxConstraint, pages, categoryStats, ran, responses,
                   filesWritten>>

\* return res.status(400).json({ error: '缺少必要列...' })
RespondMissing ==
    /\ pc = "refused"
    /\ responses' = Append(responses, 400)
    /\ pc' = "done"
    /\ UNCHANGED <<inputVars, trimVars, cleanedData, foundCols, renamedData, processedData,
                   sortedData, maxConstraint, pages, categoryStats, ran,
                   fileOnDisk, unlinkAttempts, thrownAt, exitCode, filesWritten>>

\* const renamedData = cleanedData.map(...)
Rename ==
    /\ pc = "resolved"
    /\ renamedData' = renameColumns(cleanedData, foundCols)
    /\ ran' = ran \cup {"rename"}
    /\ pc' = "renamed"
    /\ UNCHANGED <<inputVars, trimVars, ioVars, cleanedData, foundCols, processedData,
                   sortedData, maxConstraint, pages, categoryStats>>

\* const processedData = processReasonCategoryField(renamedData)
ProcessCategory ==
    /\ pc = "renamed"
    /\ processedData' = processReasonCategoryField(renamedData)
    /\ ran' = ran \cup {"process"}
    /\ pc' = "processed"
    /\ UNCHANGED <<inputVars, trimVars, ioVars, cleanedData, foundCols, renamedData,
                   sortedData, maxConstraint, pages, categoryStats>>

\* const sortedData = sortData(processedData): sort works in place, the
\* returned array is the argument
SortData ==
    /\ pc = "processed"
    /\ sortedData' = sortData(processedData)
    /\ processedData' = sortData(processedData)
    /\ ran' = ran \cup {"sort"}
    /\ pc' = "sorted"
    /\ UNCHANGED <<inputVars, trimVars, ioVars, cleanedData, foundCols, renamedData,
                   maxConstraint, pages, categoryStats>>

\* const pages = splitIntoPagesByCategoryPriority(sortedData, '涨停原因', maxConstraint)
Paginate ==
    /\ pc = "sorted"
    /\ pages' = splitIntoPagesByCategoryPriority(sortedData, KeyLimitReason, maxConstraint)
    /\ ran' = ran \cup {"paginate"}
    /\ pc' = "paginated"
    /\ UNCHANGED <<inputVars, trimVars, ioVars, cleanedData, foundCols, renamedData,
                   processedData, sortedData, maxConstraint, categoryStats>>

\* categoryStats: getCategoryStats(sortedData)
Stats ==
    /\ pc = "paginated"
    /\ categoryStats' = getCategoryStats(sortedData)
    /\ ran' = ran \cup {"stats"}
    /\ pc' = "built"
    /\ UNCHANGED <<inputVars, trimVars, ioVars, cleanedData, foundCols, renamedData,
                   processedData, sortedData, maxConstraint, pages>>

\* the handler: fs.unlinkSync(req.file.path) before res.json (it may throw);
\* the script: mkdir, one file per page, the CSV (a write may throw, after
\* any number of page files)
Finish ==
    /\ pc = "built"
    /\ IF mode = "http"
       THEN /\ unlinkAttempts' = unlinkAttempts + 1
            /\ \/ /\ fileOnDisk
                  /\ fileOnDisk' = FALSE
                  /\ pc' = "unlinked"
                  /\ UNCHANGED thrownAt
               \/ /\ pc' = "catch"
                  /\ thrownAt' = "unlink"
                  /\ UNCHANGED fileOnDisk
            /\ UNCHANGED <<exitCode, filesWritten>>
       ELSE /\ \/ /\ filesWritten' = Len(pages) + 1
                  /\ exitCode' = 0
                  /\ pc' = "done"
                  /\ UNCHANGED thrownAt
               \/ /\ filesWritten' \in 0..Len(pages)
                  /\ pc' = "catch"
                  /\ thrownAt' = "write"
                  /\ UNCHANGED exitCode
            /\ UNCHANGED <<fileOnDisk, unlinkAttempts>>
    /\ UNCHANGED <<inputVars, trimVars, cleanedData, foundCols, renamedData, processedData,
                   sortedData, maxConstraint, pages, categoryStats, ran, responses>>

\* res.json(result)
RespondOK ==
    /\ pc = "unlinked"
    /\ responses' = Append(responses, 200)
    /\ pc' = "done"
    /\ UNCHANGED <<inputVars, trimVars, cleanedData, foundCols, renamedData, processedData,
                   sortedData, maxConstraint, pages, categoryStats, ran,
                   fileOnDisk, unlinkAttempts, thrownAt, exitCode, filesWritten>>

\* a mutant of the catch block: no clean-up of the upload
CatchWithoutUnlink ==
    /\ pc = "catch"
    /\ IF mode = "http"
       THEN pc' = "caught" /\ UNCHANGED exitCode
       ELSE exitCode' = 1 /\ pc' = "done"
    /\ UNCHANGED <<inputVars, trimVars, cleanedData, foundCols, renamedData, processedData,
                   sortedData, maxConstraint, pages, categoryStats, ran, responses,
                   filesWritten, fileOnDisk, unlinkAttempts, thrownAt>>

\* the catch block: the handler tries unlinkSync, swallowing its exception;
\* the script exits with code 1
Catch ==
    /\ pc = "catch"
    /\ IF mode = "http"
       THEN /\ unlinkAttempts' = unlinkAttempts + 1
            /\ \/ fileOnDisk /\ fileOnDisk' = FALSE
               \/ UNCHANGED fileOnDisk
            /\ pc' = "caught"
            /\ UNCHANGED exitCode
       ELSE /\ exitCode' = 1
            /\ pc' = "done"
            /\ UNCHANGED <<fileOnDisk, unlinkAttempts>>
    /\ UNCHANGED <<inputVars, trimVars, cleanedData, foundCols, renamedData, processedData,
                   sortedData, maxConstraint, pages, categoryStats, ran, responses,
                   filesWritten, thrownAt>>

\* res.status(500).json({ error: ... })
RespondError ==
    /\ pc = "caught"
    /\ responses' = Append(responses, 500)
    /\ pc' = "done"
    /\ UNCHANGED <<inputVars, trimVars, cleanedData, foundCols, renamedData, processedData,
                   sortedData, maxConstraint, pages, categoryStats, ran,
                   fileOnDisk, unlinkAttempts, thrownAt, exitCode, filesWritten>>

\* one request to POST /api/upload, or one run of the script
Init ==
    /\ pc = "start"
    /\ mode \in {"http", "cli"}
    /\ reqFile \in BOOLEAN
    /\ readable \in (IF reqFile THEN BOOLEAN ELSE {FALSE})
    /\ constraintField \in (IF mode = "http" /\ reqFile THEN ConstraintFields ELSE {Undefined})
    /\ rawData \in (IF reqFile /\ readable THEN Sheets ELSE {<<>>})
    /\ fileOnDisk = reqFile
    /\ cleanedData = <<>>
    /\ renamedData = <<>>
    /\ processedData = <<>>
    /\ sortedData = <<>>
    /\ maxConstraint = DefaultMaxConstraint
    /\ Fresh

Next ==
    \/ NoFile
    \/ ReadWorkbook
    \/ FindColumns
    \/ AbortMissing
    \/ RespondMissing
    \/ Rename
    \/ ProcessCategory
    \/ SortData
    \/ Paginate
    \/ Stats
    \/ Finish
    \/ RespondOK
    \/ Catch
    \/ RespondError

Spec == Init /\ [][Next]_vars

\* the inputs no component specification varies
NoRequest ==
    /\ mode = "http"
    /\ reqFile = TRUE
    /\ readable = TRUE
    /\ constraintField = Undefined
    /\ rawData = <<>>
    /\ fileOnDisk = TRUE

\* the paginator and the statistics on every small dataset and budget
InitPaginate ==
    /\ pc = "sorted"
    /\ NoRequest
    /\ Fresh
    /\ cleanedData = <<>>
    /\ renamedData = <<>>
    /\ \E n \in 0..MaxPageRows : sortedData \in RowsWithReasons(n)
    /\ processedData = sortedData
    /\ maxConstraint \in (0 - 1)..MaxConstraintBound

NextPaginate == Paginate \/ Stats

SpecPaginate == InitPaginate /\ [][NextPaginate]_vars

\* the sorter on every small dataset
InitSort ==
    /\ pc = "processed"
    /\ NoRequest
    /\ Fresh
    /\ cleanedData = <<>>
    /\ renamedData = <<>>
    /\ \E n \in 0..MaxSortRows : processedData \in RowsWithSortKeys(n)
    /\ sortedData = <<>>
    /\ maxConstraint = DefaultMaxConstraint

NextSort == SortData

SpecSort == InitSort /\ [][NextSort]_vars

\* processReasonCategoryField applied once more, to its own result
ProcessAgain ==
    /\ pc = "processed"
    /\ reprocessedData' = processReasonCategoryField(processedData)
    /\ pc' = "reprocessed"
    /\ UNCHANGED <<inputVars, ioVars, cleanedData, foundCols, renamedData, processedData,
                   maxLength, trimmed, sortedData, maxConstraint, pages, categoryStats, ran>>

\* trimReasonCategoryField(reasonCategory, maxLength) on a string cell
TrimTo ==
    /\ pc = "renamed"
    /\ Get(renamedData[1], KeyLimitReasonCategory).type = "string"
    /\ \E limit \in (0 - 1)..MaxWidthBound \cup {DefaultMaxLength} :
           /\ maxLength' = limit
           /\ trimmed' = trimReasonCategoryField(
                             Get(renamedData[1], KeyLimitReasonCategory).str, limit)
    /\ pc' = "trimmed"
    /\ UNCHANGED <<inputVars, ioVars, cleanedData, foundCols, renamedData, processedData,
                   reprocessedData, sortedData, maxConstraint, pages, categoryStats, ran>>

\* the category-field trimmer on every small cell
InitTrim ==
    /\ pc = "renamed"
    /\ NoRequest
    /\ Fresh
    /\ cleanedData = <<>>
    /\ renamedData \in {<<Row(1, << <<KeyLimitReasonCategory, c>> >>)>> : c \in CategoryCells}
    /\ processedData = <<>>
    /\ sortedData = <<>>
    /\ maxConstraint = DefaultMaxConstraint

NextTrim == ProcessCategory \/ ProcessAgain \/ TrimTo

SpecTrim == InitTrim /\ [][NextTrim]_vars

-----------------------------------------------------------------------------
(* Properties of the paginator, the statistics and the sorter *)

Paginated == pc \in {"paginated", "built"}

RECURSIVE Flatten(_)
Flatten(ps) == IF Len(ps) = 0 THEN <<>> ELSE Head(ps) \o Flatten(Tail(ps))

Reason(row) == Get(row, KeyLimitReason)
IsSentinel(row) == Reason(row) = Str(OtherConcept)
DistinctGroups(page) == {Reason(page[k]) : k \in 1..Len(page)}
Weight(page) == 2 * Cardinality(DistinctGroups(page)) + Len(page)

\* occurrences and first position of a grouping value in the paginated input
Occurrences(v) == Cardinality({k \in 1..Len(sortedData) : Reason(sortedData[k]) = v})
FirstSeen(v) == CHOOSE k \in 1..Len(sortedData) :
                    /\ Reason(sortedData[k]) = v
                    /\ \A m \in 1..(k - 1) : Reason(sortedData[m]) # v

\* C1: every page satisfies 2 x distinct groups + rows <= maxConstraint, or
\* holds exactly one row
C1_PageConstraint ==
    Paginated =>
        \A k \in 1..Len(pages) :
            Weight(pages[k]) <= maxConstraint \/ Len(pages[k]) = 1

\* C1 witness: several pages, one of them with two groups filling the budget
\* exactly, and one single-row page
C1_Witness ==
    /\ Paginated
    /\ Len(pages) >= 2
    /\ \E k \in 1..Len(pages) :
           /\ Len(pages[k]) >= 3
           /\ Cardinality(DistinctGroups(pages[k])) = 2
           /\ Weight(pages[k]) = maxConstraint

\* C2: the concatenation of the pages holds every input row exactly once
C2_Completeness ==
    Paginated =>
        LET out == Flatten(pages)
        IN  /\ Len(out) = Len(sortedData)
            /\ \A k \in 1..Len(sortedData) :
                   Cardinality({m \in 1..Len(out) : out[m] = sortedData[k]}) = 1

\* C3: in the concatenation of the pages no non-sentinel row comes after a
\* sentinel row
C3_SentinelLast ==
    Paginated =>
        LET out == Flatten(pages)
        IN  \A i, j \in 1..Len(out) : (i < j /\ IsSentinel(out[i])) => IsSentinel(out[j])

\* C3 witness: the sentinel is the first and the most frequent group of the
\* input, and other groups were paginated with it
C3_Witness ==
    /\ Paginated
    /\ Len(sortedData) >= 3
    /\ IsSentinel(sortedData[1])
    /\ \E k \in 1..Len(sortedData) :
           /\ Reason(sortedData[k]).type = "string"
           /\ ~IsSentinel(sortedData[k])
           /\ Occurrences(Str(OtherConcept)) > Occurrences(Reason(sortedData[k]))
    /\ \E m \in 1..Len(pages) : ~IsSentinel(pages[m][1])
    /\ IsSentinel(pages[Len(pages)][1])

Days(row) == Get(row, KeyContinuousLimitDays)
Time(row) == Get(row, KeyFinalLimitTime)

\* C4: sortData returns the rows ordered by days descending as numbers, then
\* by time ascending as strings, and rows equal on both keys keep their input
\* order (ids are input positions).  Read on the pairs of rows whose keys have
\* an order: day cells that are numbers, time cells that are strings.
C4_SortedStable ==
    pc = "sorted" =>
        /\ {sortedData[k].id : k \in 1..Len(sortedData)} = 1..Len(sortedData)
        /\ \A i, j \in 1..Len(sortedData) :
               LET a == sortedData[i]
                   b == sortedData[j]
               IN  (i < j /\ ~NumberIsNaN(Days(a)) /\ ~NumberIsNaN(Days(b))) =>
                       /\ ToNumber(Days(a)) >= ToNumber(Days(b))
                       /\ (ToNumber(Days(a)) = ToNumber(Days(b))
                            /\ Time(a).type = "string" /\ Time(b).type = "string") =>
                               /\ ~StringLess(Time(b).str, Time(a).str)
                               /\ Time(a).str = Time(b).str => a.id < b.id

\* C8: one entry per distinct 涨停原因 value with its number of rows, by count
\* descending, equal counts in order of first encounter in the rows
C8_StatsFirstSeen ==
    pc = "built" =>
        LET values == {Reason(sortedData[k]) : k \in 1..Len(sortedData)}
        IN  /\ Len(categoryStats) = Cardinality(values)
            /\ \A v \in values :
                   \E k \in 1..Len(categoryStats) :
                       /\ categoryStats[k].category = ToStr(v)
                       /\ categoryStats[k].count = Occurrences(v)
            /\ \A k, m \in 1..Len(categoryStats) :
                   k < m =>
                       \/ categoryStats[k].count > categoryStats[m].count
                       \/ /\ categoryStats[k].count = categoryStats[m].count
                          /\ \E v, w \in values :
                                 /\ ToStr(v) = categoryStats[k].category
                                 /\ ToStr(w) = categoryStats[m].category
                                 /\ FirstSeen(v) < FirstSeen(w)

\* C10: in the paginated sequence each group is contiguous, non-sentinel
\* groups come by descending count, equal counts by first appearance in the
\* input rows
C10_GroupOrder ==
    Paginated =>
        LET out == Flatten(pages)
        IN  /\ \A i, j, k \in 1..Len(out) :
                   (i < j /\ j < k /\ Reason(out[i]) = Reason(out[k]))
                       => Reason(out[j]) = Reason(out[i])
            /\ \A i, j \in 1..Len(out) :
                   (/\ i < j
                    /\ Reason(out[i]) # Reason(out[j])
                    /\ ~IsSentinel(out[i])
                    /\ ~IsSentinel(out[j]))
                       => \/ Occurrences(Reason(out[i])) > Occurrences(Reason(out[j]))
                          \/ /\ Occurrences(Reason(out[i])) = Occurrences(Reason(out[j]))
                             /\ FirstSeen(Reason(out[i])) < FirstSeen(Reason(out[j]))

-----------------------------------------------------------------------------
(* Properties of the category-field trimmer *)

\* the width of the claims: 2 per code unit in U+4E00..U+9FFF, 1 per other
RECURSIVE ComputedWidth(_)
ComputedWidth(s) ==
    IF Len(s) = 0 THEN 0
    ELSE (IF s[1] >= 19968 /\ s[1] <= 40959 THEN 2 ELSE 1) + ComputedWidth(Tail(s))

TrimInput == Get(renamedData[1], KeyLimitReasonCategory)

\* C5: normalizing and trimming (default width) the result of normalizing and
\* trimming a value changes nothing
C5_TrimIdempotent ==
    pc = "reprocessed" => reprocessedData = processedData

\* C6: trimReasonCategoryField returns a string no wider than maxLength
C6_WidthWithinBudget ==
    pc = "trimmed" => ComputedWidth(trimmed) <= maxLength

\* C6, amended: for every maxLength >= 0, trimReasonCategoryField returns a
\* string no wider than maxLength
C6_WidthWithinNonNegativeBudget ==
    (pc = "trimmed" /\ maxLength >= 0) => ComputedWidth(trimmed) <= maxLength

\* C6 witness: a string with Chinese characters, wider than the budget, was
\* cut to a non-empty string
C6_Witness ==
    /\ pc = "trimmed"
    /\ maxLength >= 2
    /\ ComputedWidth(TrimInput.str) > maxLength
    /\ \E k \in 1..Len(TrimInput.str) : TrimInput.str[k] = 20013
    /\ Len(trimmed) >= 1
    /\ ComputedWidth(trimmed) = maxLength

-----------------------------------------------------------------------------
(* Properties of the handler and of the script *)

\* findColumn returned not-found for at least one of the four targets
SomeColumnNotFound ==
    /\ "find" \in ran
    /\ Null \in {foundCols.finalLimitTimeCol, foundCols.continuousLimitDaysCol,
                 foundCols.limitReasonCol, foundCols.limitReasonCategoryCol}

\* no row was renamed, trimmed, sorted or paginated, no statistics, no file
NothingProcessed ==
    /\ ran \cap {"rename", "process", "sort", "paginate", "stats"} = {}
    /\ renamedData = <<>>
    /\ sortedData = <<>>
    /\ pages = <<>>
    /\ categoryStats = <<>>
    /\ filesWritten = 0

\* C7: with a required column not found the run aborts with the
\* missing-column error (HTTP 400, exit code 1) and processes nothing
C7_MissingColumnAborts ==
    SomeColumnNotFound =>
        /\ NothingProcessed
        /\ pc \in {"missing", "refused", "catch", "caught", "done"}
        /\ responses \in {<<>>, <<400>>}
        /\ pc = "done" => (IF mode = "http" THEN responses = <<400>> ELSE exitCode = 1)

\* C7, amended: with a required column not found the run processes nothing;
\* the script exits with code 1; the handler answers 400, or 500 when the
\* unlinkSync call of the missing-columns branch throws
C7_MissingColumnAbortsUnlessUnlinkThrows ==
    SomeColumnNotFound =>
        /\ NothingProcessed
        /\ pc \in {"missing", "refused", "catch", "caught", "done"}
        /\ responses \in {<<>>, <<400>>, <<500>>}
        /\ responses = <<500>> => thrownAt = "unlink"
        /\ pc = "done" =>
               (IF mode = "http"
                THEN responses = (IF thrownAt = "unlink" THEN <<500>> ELSE <<400>>)
                ELSE exitCode = 1)

\* C7 witness: a sheet with rows that lacks one required column only, refused
\* with 400 after FindColumns
C7_Witness ==
    /\ SomeColumnNotFound
    /\ Len(rawData) >= 1
    /\ foundCols.limitReasonCol # Null
    /\ mode = "http"
    /\ pc = "done"
    /\ responses = <<400>>

\* the positions from which the handler has a step to take
Running ==
    {"start", "read", "missing", "refused", "resolved", "renamed", "processed",
     "sorted", "paginated", "built", "unlinked", "catch", "caught"}

\* C9: for a request with a file, unlinkSync was attempted before any
\* response (200, 400 or 500) is sent, at most one response is sent, and the
\* handler, which stops only when done, has then sent exactly one
C9_UnlinkBeforeSingleResponse ==
    (mode = "http" /\ reqFile) =>
        /\ Len(responses) <= 1
        /\ \A k \in 1..Len(responses) : responses[k] \in {200, 400, 500}
        /\ Len(responses) >= 1 => unlinkAttempts >= 1
        /\ pc = "done" => Len(responses) = 1
        /\ pc # "done" => pc \in Running

\* C9 witness: unlinkSync threw on the success path; the catch block tried
\* again and the handler answered 500, once
C9_Witness ==
    /\ mode = "http"
    /\ reqFile
    /\ pc = "done"
    /\ "stats" \in ran
    /\ thrownAt = "unlink"
    /\ unlinkAttempts = 2
    /\ responses = <<500>>

\* C11: after sortData(rows) returns, the array that was passed to it still
\* holds its rows in their original order (ids are the input positions), the
\* sorted rows being held by a different array
C11_SortLeavesInputInOrder ==
    pc = "sorted" =>
        /\ Len(processedData) = Len(sortedData)
        /\ \A k \in 1..Len(processedData) : processedData[k].id = k

=============================================================================
